---- MODULE Spec2Model ----
(***************************************************************************)
(* Escrow service of escrow/escrow.go: the in-memory store escrows guarded *)
(* by escrowsMutex, and the five HTTP handlers CreateEscrow, VerifyPayment,*)
(* ReleaseEscrow, RefundEscrow and GetEscrow, each run by one of NumProcs  *)
(* goroutines.  A handler is a sequence of steps; a step is one critical   *)
(* section of escrowsMutex or one unsynchronised access to the *Escrow the *)
(* handler looked up (the handlers read and check the record after         *)
(* RUnlock, and re-acquire the lock only to write).                        *)
(***************************************************************************)
EXTENDS Integers, Sequences, FiniteSets, TLC

\* Goroutines serving requests concurrently (net/http: one per request).
NumProcs == 2
\* Largest value time.Now().UnixNano() takes in the model.
MaxClock == 2
\* Number of *Escrow objects CreateEscrow allocates in the model.
MaxEscrows == 2
\* Number of well-formed requests the service receives in the model, when
\* requests overlap (Spec) and when they are served one at a time (SpecSeq).
MaxRequests == 4
MaxSeqRequests == 5
\* The same for SpecTail: MaxTailRequests requests, the last MaxOverlap of
\* which may overlap.
MaxTailRequests == 6
MaxOverlap == 2
\* The same for SpecLong: requests served one at a time, enough of them for
\* a record to be settled, funded again and settled again.
MaxLongRequests == 7

Procs == 1..NumProcs
\* The identifier "escrow-<n>" is modelled by n; 0 is the empty string.
IDs == 1..MaxClock
Refs == 1..MaxEscrows
Nil == 0

Parties == {"buyer", "seller", "escrow"}
\* Party field of a request: the three roles, an unknown role, the empty string.
PartyInputs == Parties \cup {"arbiter", ""}

\* A string is modelled as the tuple of its characters.
Empty == << >>
HexChars ==
    {"0", "1", "2", "3", "4", "5", "6", "7", "8", "9",
     "a", "b", "c", "d", "e", "f", "A", "B", "C", "D", "E", "F"}

\* The two keys of knownTransactions.
KnownTx1 ==
    <<"2","6","d","d","4","6","6","3","5","1","8","b","3","e","2","4","8","7",
     "2","f","d","5","6","3","5","f","d","8","8","9","a","8","a","0","e","1",
     "c","2","3","2","b","8","d","4","8","8","8","6","8","a","c","3","7","8",
     "a","0","a","2","d","2","8","f","b","1">>
KnownTx2 ==
    <<"3","a","4","b","5","c","6","d","7","e","8","f","9","a","0","b","1","c",
     "2","d","3","e","4","f","5","a","6","b","7","c","8","d","9","e","0","f",
     "1","a","2","b","3","c","4","d","5","e","6","f","7","a","8","b","9","c",
     "0","d","1","e","2","f","3","a","4","b">>
knownTransactions == {KnownTx1, KnownTx2}

\* 64 characters
TxIDLen == 64
Rep(c, n) == [i \in 1..n |-> c]
\* txid values a VerifyPayment request carries: empty, too short, 64 characters
\* with a non-hexadecimal one, well-formed but unknown, and the two known ones.
TxIDInputs ==
    {Empty, <<"a", "b">>, Rep("z", TxIDLen), Rep("0", TxIDLen), KnownTx1, KnownTx2}

\* Public keys of a create request: empty, not hexadecimal, a parsable key.
ValidKeys == {"02buyer", "03seller", "02escrow"}
\* <<BuyerPubKey, SellerPubKey, EscrowPubKey>> of a create request: three
\* parsable keys, one of them empty, one of them not hexadecimal.
KeyInputs ==
    {<<"02buyer", "03seller", "02escrow">>, <<"", "03seller", "02escrow">>,
     <<"02buyer", "", "02escrow">>, <<"02buyer", "03seller", "">>,
     <<"02buyer", "zz", "02escrow">>}
\* Amounts of a create request.
Amounts == {0, 500}
\* The fixed fee ReleaseEscrow and RefundEscrow subtract.
Fee == 1000

\* PrivateKey, Signature and PublicKey of a signature request are opaque; only
\* their emptiness is read.
Blobs == {"", "x"}
NoKeys == <<"", "", "">>

VARIABLES
    clock,          \* last value time.Now() returned
    heap,           \* the *Escrow objects allocated so far, by reference
    escrows,        \* the map escrows: identifier -> reference (Nil: no entry)
    escrowsMutex,   \* [writer: holder of Lock or Nil, readers: holders of RLock]
    pc,             \* per goroutine: the step its handler is at
    req,            \* per goroutine: the decoded request
    escrow,         \* per goroutine: the local variable escrow (a reference)
    obs,            \* per goroutine: the status its check read, its settlement call
    resp,           \* per goroutine: the response written
    budget,         \* well-formed requests the service still receives
    overlap         \* how many of the last requests may overlap

vars ==
    <<clock, heap, escrows, escrowsMutex, pc, req, escrow, obs, resp, budget,
      overlap>>

NoReq ==
    [kind |-> "none", id |-> 0, party |-> "", blobs |-> NoKeys, txid |-> Empty,
     keys |-> NoKeys, amount |-> 0]
NoObs ==
    [status |-> "", txid |-> Empty, from |-> Empty, to |-> "", amount |-> 0]
NoBody == [status |-> "", txid |-> Empty, count |-> 0]
Response(err, status, txid, count) ==
    [err |-> err, status |-> status, txid |-> txid, count |-> count]
Error(err) == Response(err, "", Empty, 0)
NoResp == Error("none")

\* utils.VerifyTransaction without the format and known-transaction checks.
VerifyTransaction_NonEmpty(txID) ==
    IF txID = Empty THEN "transaction ID is empty" ELSE ""

\* utils.VerifyTransaction: "" when the txid is verified, else the error.
VerifyTransaction(txID) ==
    IF txID = Empty THEN "transaction ID is empty"
    ELSE IF Len(txID) # TxIDLen THEN "invalid transaction ID format: length"
    ELSE IF \E i \in 1..Len(txID) : txID[i] \notin HexChars
         THEN "invalid transaction ID format: hexadecimal"
    ELSE IF txID \notin knownTransactions
         THEN "transaction not found in the blockchain"
    ELSE ""

\* utils.CreateMultiSig: the P2SH address of the 2-of-3 script over the three
\* keys, Empty (an error) when a key does not decode.
CreateMultiSig(buyerPubKey, sellerPubKey, escrowPubKey) ==
    IF {buyerPubKey, sellerPubKey, escrowPubKey} \subseteq ValidKeys
    THEN <<"2of3", buyerPubKey, sellerPubKey, escrowPubKey>>
    ELSE Empty

\* utils.CreateBIP70PaymentRequest: "" when the request is built, else the
\* error: the address must decode (one that CreateMultiSig derived does).
CreateBIP70PaymentRequest(address, amount) ==
    IF address = Empty \/ address[1] # "2of3" THEN "invalid address" ELSE ""

\* utils.CreateTransaction: the mock transaction id "tx-<now>"; never an error.
CreateTransaction(fromAddress, toAddress, amount, now) == <<"tx", now>>

\* What goroutine p keeps of its call of utils.CreateTransaction: the
\* arguments it passed and the TxID of the transaction returned.
Called(p, fromAddress, toAddress, amount, now) ==
    [obs EXCEPT ![p].txid = CreateTransaction(fromAddress, toAddress, amount, now),
                ![p].from = fromAddress, ![p].to = toAddress,
                ![p].amount = amount]

\* The Escrow struct literal without its Status field.
NewEscrow_NoStatus(id, r, address) ==
    [ID |-> id,
     BuyerPubKey |-> r.keys[1], SellerPubKey |-> r.keys[2],
     EscrowPubKey |-> r.keys[3],
     MultiSigAddress |-> address,
     Amount |-> r.amount,
     Status |-> "",
     ExpiresAt |-> id,
     PaymentTxID |-> Empty, ReleaseTxID |-> Empty, RefundTxID |-> Empty,
     ReleaseSignatures |-> << >>, RefundSignatures |-> << >>]

\* The Escrow struct literal of CreateEscrow. The clock counts the instants at
\* which time.Now() is read; ExpiresAt, expiryHours after the reading that
\* gives the identifier, lies before the next instant: a record is past its
\* expiry as soon as the clock has moved on.
NewEscrow(id, r, address) ==
    [ID |-> id,
     BuyerPubKey |-> r.keys[1], SellerPubKey |-> r.keys[2],
     EscrowPubKey |-> r.keys[3],
     MultiSigAddress |-> address,
     Amount |-> r.amount,
     Status |-> "created",
     ExpiresAt |-> id,
     PaymentTxID |-> Empty, ReleaseTxID |-> Empty, RefundTxID |-> Empty,
     ReleaseSignatures |-> << >>, RefundSignatures |-> << >>]

Start(n, k) ==
    /\ budget = n
    /\ overlap = k
    /\ clock = 1
    /\ heap = << >>
    /\ escrows = [i \in IDs |-> Nil]
    /\ escrowsMutex = [writer |-> Nil, readers |-> {}]
    /\ pc = [p \in Procs |-> "idle"]
    /\ req = [p \in Procs |-> NoReq]
    /\ escrow = [p \in Procs |-> Nil]
    /\ obs = [p \in Procs |-> NoObs]
    /\ resp = [p \in Procs |-> NoResp]

\* Requests served concurrently.
Init == Start(MaxRequests, MaxRequests)
\* Requests served one after the other.
InitSeq == Start(MaxSeqRequests, 0)
\* Requests served one after the other, but for the last MaxOverlap of them.
InitTail == Start(MaxTailRequests, MaxOverlap)

\* While requests are still to come, a goroutine that has written its response
\* ends before any other goroutine steps: ending touches nothing shared, so
\* the order loses no behaviour.
NoneDone == budget = 0 \/ \A q \in Procs : pc[q] # "done"
\* Goroutine p is scheduled: always when no other goroutine is inside a
\* handler, and beside another one among the last overlap requests.
Solo(p) == \A q \in Procs \ {p} : pc[q] \in {"idle", "done"}
May(p) == NoneDone /\ (Solo(p) \/ budget < overlap)
\* Goroutine p is at step at of its handler.
At(p, at) == pc[p] = at /\ May(p)
\* A goroutine takes a new request when it serves none (and the model has
\* requests left).
Free(p) == At(p, "idle") /\ budget > 0


\* sync.RWMutex: RLock waits for the writer, Lock for the writer and the readers.
CanRLock == escrowsMutex.writer = Nil
CanLock == escrowsMutex.writer = Nil /\ escrowsMutex.readers = {}
RLocked(p) == [escrowsMutex EXCEPT !.readers = @ \cup {p}]
RUnlocked(p) == [escrowsMutex EXCEPT !.readers = @ \ {p}]
Locked(p) == [escrowsMutex EXCEPT !.writer = p]
Unlocked == [escrowsMutex EXCEPT !.writer = Nil]

\* The handler returns after writing an error response.
Reject(p, r, err) ==
    /\ pc' = [pc EXCEPT ![p] = "done"]
    /\ req' = [req EXCEPT ![p] = r]
    /\ resp' = [resp EXCEPT ![p] = Error(err)]
    /\ UNCHANGED <<budget, overlap>>

\* The handler goes on to step at with the well-formed request r.
Goto(p, r, at) ==
    /\ budget' = budget - 1
    /\ UNCHANGED overlap
    /\ pc' = [pc EXCEPT ![p] = at]
    /\ req' = [req EXCEPT ![p] = r]
    /\ resp' = [resp EXCEPT ![p] = NoResp]

\* Assignment to one field of the object a reference points to.
Store(ref, field, value) == [heap EXCEPT ![ref] = [@ EXCEPT ![field] = value]]

Fail(p, err) == Reject(p, req[p], err)

\* The lookup that answers an empty 200 when there is no entry.
Lookup_NoError(p, at) ==
    /\ escrowsMutex' = RUnlocked(p)
    /\ UNCHANGED <<clock, heap, escrows>>
    /\ IF escrows[req[p].id] = Nil
       THEN /\ pc' = [pc EXCEPT ![p] = "done"]
            /\ resp' = [resp EXCEPT ![p] = Response("", "", Empty, 0)]
            /\ UNCHANGED <<req, escrow, obs, budget, overlap>>
       ELSE /\ escrow' = [escrow EXCEPT ![p] = escrows[req[p].id]]
            /\ pc' = [pc EXCEPT ![p] = at]
            /\ UNCHANGED <<req, obs, resp, budget, overlap>>

\* Lookup under RLock (escrow, exists := escrows[id]; RUnlock), shared by the
\* four handlers that address a record: 404 when there is no entry.
Lookup(p, at) ==
    /\ escrowsMutex' = RUnlocked(p)
    /\ UNCHANGED <<clock, heap, escrows>>
    /\ IF escrows[req[p].id] = Nil
       THEN Fail(p, "escrow not found") /\ UNCHANGED <<escrow, obs>>
       ELSE /\ escrow' = [escrow EXCEPT ![p] = escrows[req[p].id]]
            /\ pc' = [pc EXCEPT ![p] = at]
            /\ UNCHANGED <<req, obs, resp, budget, overlap>>

\* The handler returns after writing a 200/201 response.
Reply(p, status, txid, count) ==
    /\ pc' = [pc EXCEPT ![p] = "done"]
    /\ resp' = [resp EXCEPT ![p] = Response("", status, txid, count)]
    /\ UNCHANGED <<req, escrow, obs, budget, overlap>>

(***************************************************************************)
(* CreateEscrow                                                            *)
(***************************************************************************)
CreateRequests ==
    [kind : {"create"}, id : {0}, party : {""}, blobs : {NoKeys}, txid : {Empty},
     keys : KeyInputs, amount : Amounts]

\* CreateEscrow without its amount check.
CreateEscrow_NoAmount(p) ==
    /\ Free(p)
    /\ \E r \in CreateRequests :
        LET address == CreateMultiSig(r.keys[1], r.keys[2], r.keys[3]) IN
        \/ /\ (\E i \in 1..3 : r.keys[i] = "") \/ address = Empty
           /\ Reject(p, r, "missing required fields")
           /\ UNCHANGED <<clock, heap, escrows, escrowsMutex, escrow, obs>>
        \/ /\ \A i \in 1..3 : r.keys[i] # ""
           /\ address # Empty
           /\ Len(heap) < MaxEscrows
           /\ \E now \in clock..MaxClock :
                /\ clock' = now
                /\ heap' = Append(heap, NewEscrow(now, r, address))
           /\ escrow' = [escrow EXCEPT ![p] = Len(heap) + 1]
           /\ Goto(p, r, "c_put")
           /\ UNCHANGED <<escrows, escrowsMutex, obs>>

\* Validation, address derivation, the payment request and the Escrow literal
\* (escrow.go 90-135).
CreateEscrow_Begin(p) ==
    /\ Free(p)
    /\ \E r \in CreateRequests :
        LET address == CreateMultiSig(r.keys[1], r.keys[2], r.keys[3])
            err == IF address = Empty
                   THEN "failed to create multisig address"
                   ELSE IF CreateBIP70PaymentRequest(address, r.amount) # ""
                   THEN "failed to create payment request"
                   ELSE "" IN
        \/ /\ \E i \in 1..3 : r.keys[i] = ""
           /\ Reject(p, r, "missing required fields")
           /\ UNCHANGED <<clock, heap, escrows, escrowsMutex, escrow, obs>>
        \/ /\ \A i \in 1..3 : r.keys[i] # ""
           /\ r.amount <= 0
           /\ Reject(p, r, "invalid amount")
           /\ UNCHANGED <<clock, heap, escrows, escrowsMutex, escrow, obs>>
        \/ /\ \A i \in 1..3 : r.keys[i] # ""
           /\ r.amount > 0
           /\ err # ""
           /\ Reject(p, r, err)
           /\ UNCHANGED <<clock, heap, escrows, escrowsMutex, escrow, obs>>
        \/ /\ \A i \in 1..3 : r.keys[i] # ""
           /\ r.amount > 0
           /\ err = ""
           /\ Len(heap) < MaxEscrows
           /\ \E now \in clock..MaxClock :
                /\ clock' = now
                /\ heap' = Append(heap, NewEscrow(now, r, address))
           /\ escrow' = [escrow EXCEPT ![p] = Len(heap) + 1]
           /\ Goto(p, r, "c_put")
           /\ UNCHANGED <<escrows, escrowsMutex, obs>>

\* Lock; escrows[escrow.ID] = escrow; Unlock; 201 (escrow.go 137-143).
CreateEscrow_Put(p) ==
    /\ At(p, "c_put")
    /\ CanLock
    /\ escrows' = [escrows EXCEPT ![heap[escrow[p]].ID] = escrow[p]]
    /\ Reply(p, heap[escrow[p]].Status, Empty, 0)
    /\ UNCHANGED <<clock, heap, escrowsMutex>>

(***************************************************************************)
(* VerifyPayment                                                           *)
(***************************************************************************)
VerifyRequests ==
    [kind : {"verify"}, id : 0..MaxClock, party : {""}, blobs : {NoKeys},
     txid : TxIDInputs, keys : {NoKeys}, amount : {0}]

\* Validation and RLock (escrow.go 398-405).
VerifyPayment_Begin(p) ==
    /\ Free(p)
    /\ \E r \in VerifyRequests :
        \/ /\ (r.id = 0 \/ r.txid = Empty)
           /\ Reject(p, r, "missing required fields")
           /\ UNCHANGED <<clock, heap, escrows, escrowsMutex, escrow, obs>>
        \/ /\ r.id # 0 /\ r.txid # Empty
           /\ CanRLock
           /\ escrowsMutex' = RLocked(p)
           /\ Goto(p, r, "v_get")
           /\ UNCHANGED <<clock, heap, escrows, escrow, obs>>

\* escrow, exists := escrows[req.EscrowID]; RUnlock (escrow.go 406-412).
VerifyPayment_Get(p) ==
    /\ At(p, "v_get")
    /\ Lookup(p, "v_check")

\* VerifyPayment without its status check.
VerifyPayment_NoCheck(p) ==
    /\ At(p, "v_check")
    /\ UNCHANGED <<clock, heap, escrows, escrowsMutex, escrow>>
    /\ obs' = [obs EXCEPT ![p].status = heap[escrow[p]].Status]
    /\ IF VerifyTransaction(req[p].txid) # ""
       THEN Fail(p, VerifyTransaction(req[p].txid))
       ELSE /\ pc' = [pc EXCEPT ![p] = "v_lock"]
            /\ UNCHANGED <<req, resp, budget, overlap>>

\* The status check, read without the lock, and utils.VerifyTransaction
\* (escrow.go 414-438).
VerifyPayment_Check(p) ==
    /\ At(p, "v_check")
    /\ UNCHANGED <<clock, heap, escrows, escrowsMutex>>
    /\ LET status == heap[escrow[p]].Status
           err == VerifyTransaction(req[p].txid) IN
       /\ obs' = [obs EXCEPT ![p].status = status]
       /\ UNCHANGED escrow
       /\ IF status = "funded" THEN Fail(p, "payment already verified")
          ELSE IF err # "" THEN Fail(p, err)
          ELSE /\ pc' = [pc EXCEPT ![p] = "v_lock"]
               /\ UNCHANGED <<req, resp, budget, overlap>>

\* VerifyPayment marking every record funded.
VerifyPayment_LockAll(p) ==
    /\ At(p, "v_lock")
    /\ CanLock
    /\ escrowsMutex' = Locked(p)
    /\ heap' = [r \in DOMAIN heap |-> [heap[r] EXCEPT !.Status = "funded"]]
    /\ pc' = [pc EXCEPT ![p] = "v_txid"]
    /\ UNCHANGED <<clock, escrows, req, escrow, obs, resp, budget, overlap>>

\* Lock; escrow.Status = "funded" (escrow.go 441-442).
VerifyPayment_Lock(p) ==
    /\ At(p, "v_lock")
    /\ CanLock
    /\ escrowsMutex' = Locked(p)
    /\ heap' = Store(escrow[p], "Status", "funded")
    /\ pc' = [pc EXCEPT ![p] = "v_txid"]
    /\ UNCHANGED <<clock, escrows, req, escrow, obs, resp, budget, overlap>>

\* VerifyPayment returning without Unlock.
VerifyPayment_NoUnlock(p) ==
    /\ At(p, "v_txid")
    /\ heap' = Store(escrow[p], "PaymentTxID", req[p].txid)
    /\ escrows' = [escrows EXCEPT ![req[p].id] = escrow[p]]
    /\ Reply(p, heap[escrow[p]].Status, req[p].txid, 0)
    /\ UNCHANGED <<clock, escrowsMutex>>

\* escrow.PaymentTxID = req.TxID; escrows[id] = escrow; Unlock; 200
\* (escrow.go 443-474).
VerifyPayment_TxID(p) ==
    /\ At(p, "v_txid")
    /\ heap' = Store(escrow[p], "PaymentTxID", req[p].txid)
    /\ escrows' = [escrows EXCEPT ![req[p].id] = escrow[p]]
    /\ escrowsMutex' = Unlocked
    /\ Reply(p, heap[escrow[p]].Status, req[p].txid, 0)
    /\ UNCHANGED clock

(***************************************************************************)
(* ReleaseEscrow                                                           *)
(***************************************************************************)
\* <<PrivateKey, Signature, PublicKey>> of a signature request: all given, or
\* one of them empty.
BlobInputs ==
    {<<"x", "x", "x">>, <<"", "x", "x">>, <<"x", "", "x">>, <<"x", "x", "">>}
SignRequests(kind) ==
    [kind : {kind}, id : 0..MaxClock, party : PartyInputs, blobs : BlobInputs,
     txid : {Empty}, keys : {NoKeys}, amount : {0}]
\* One of EscrowID, PrivateKey, Signature, Party, PublicKey is empty.
MissingField(r) == r.id = 0 \/ (\E i \in 1..3 : r.blobs[i] = "") \/ r.party = ""

SignedParties(sigs) == {sigs[i] : i \in 1..Len(sigs)}

\* The release handler without its party check.
ReleaseEscrow_AnyParty(p) ==
    /\ Free(p)
    /\ \E r \in SignRequests("release") :
        \/ /\ MissingField(r)
           /\ Reject(p, r, "missing required fields")
           /\ UNCHANGED <<clock, heap, escrows, escrowsMutex, escrow, obs>>
        \/ /\ ~MissingField(r)
           /\ CanRLock
           /\ escrowsMutex' = RLocked(p)
           /\ Goto(p, r, "r_get")
           /\ UNCHANGED <<clock, heap, escrows, escrow, obs>>

\* Validation and RLock (escrow.go 159-174).
ReleaseEscrow_Begin(p) ==
    /\ Free(p)
    /\ \E r \in SignRequests("release") :
        \/ /\ MissingField(r)
           /\ Reject(p, r, "missing required fields")
           /\ UNCHANGED <<clock, heap, escrows, escrowsMutex, escrow, obs>>
        \/ /\ ~MissingField(r)
           /\ r.party \notin Parties
           /\ Reject(p, r, "invalid party type")
           /\ UNCHANGED <<clock, heap, escrows, escrowsMutex, escrow, obs>>
        \/ /\ ~MissingField(r)
           /\ r.party \in Parties
           /\ CanRLock
           /\ escrowsMutex' = RLocked(p)
           /\ Goto(p, r, "r_get")
           /\ UNCHANGED <<clock, heap, escrows, escrow, obs>>

\* escrow, exists := escrows[req.EscrowID]; RUnlock (escrow.go 175-181).
ReleaseEscrow_Get(p) ==
    /\ At(p, "r_get")
    /\ Lookup(p, "r_status")

\* The release handler without its status check.
ReleaseEscrow_NoStatus(p) ==
    /\ At(p, "r_status")
    /\ UNCHANGED <<clock, heap, escrows, escrowsMutex, escrow>>
    /\ obs' = [obs EXCEPT ![p].status = heap[escrow[p]].Status]
    /\ pc' = [pc EXCEPT ![p] = "r_dup"]
    /\ UNCHANGED <<req, resp, budget, overlap>>

\* The status check of the release handler turning away an expired record.
ReleaseEscrow_StatusExpiry(p) ==
    /\ At(p, "r_status")
    /\ UNCHANGED <<clock, heap, escrows, escrowsMutex>>
    /\ LET status == heap[escrow[p]].Status IN
       /\ obs' = [obs EXCEPT ![p].status = status]
       /\ UNCHANGED escrow
       /\ IF \/ status # "funded" /\ status # "releasing"
             \/ clock > heap[escrow[p]].ExpiresAt
          THEN Fail(p, "invalid escrow status")
          ELSE /\ pc' = [pc EXCEPT ![p] = "r_dup"]
               /\ UNCHANGED <<req, resp, budget, overlap>>

\* The status check of the release handler letting a created record pass.
ReleaseEscrow_StatusCreated(p) ==
    /\ At(p, "r_status")
    /\ UNCHANGED <<clock, heap, escrows, escrowsMutex>>
    /\ LET status == heap[escrow[p]].Status IN
       /\ obs' = [obs EXCEPT ![p].status = status]
       /\ UNCHANGED escrow
       /\ IF status \notin {"created", "funded", "releasing"}
          THEN Fail(p, "invalid escrow status")
          ELSE /\ pc' = [pc EXCEPT ![p] = "r_dup"]
               /\ UNCHANGED <<req, resp, budget, overlap>>

\* The status check, read without the lock (escrow.go 183-190).
ReleaseEscrow_Status(p) ==
    /\ At(p, "r_status")
    /\ UNCHANGED <<clock, heap, escrows, escrowsMutex>>
    /\ LET status == heap[escrow[p]].Status IN
       /\ obs' = [obs EXCEPT ![p].status = status]
       /\ UNCHANGED escrow
       /\ IF status # "funded" /\ status # "releasing"
          THEN Fail(p, "invalid escrow status")
          ELSE /\ pc' = [pc EXCEPT ![p] = "r_dup"]
               /\ UNCHANGED <<req, resp, budget, overlap>>

\* The release handler without its duplicate check.
ReleaseEscrow_NoDup(p) ==
    /\ At(p, "r_dup")
    /\ pc' = [pc EXCEPT ![p] = "r_lock"]
    /\ UNCHANGED <<clock, heap, escrows, escrowsMutex, req, escrow, obs, resp,
                   budget, overlap>>

\* The duplicate check of the release handler reading both sequences.
ReleaseEscrow_DupBoth(p) ==
    /\ At(p, "r_dup")
    /\ UNCHANGED <<clock, heap, escrows, escrowsMutex>>
    /\ LET sigs == heap[escrow[p]].ReleaseSignatures
                        \o heap[escrow[p]].RefundSignatures IN
       IF \E i \in 1..Len(sigs) : sigs[i] = req[p].party
       THEN Fail(p, "duplicate signature") /\ UNCHANGED <<escrow, obs>>
       ELSE /\ pc' = [pc EXCEPT ![p] = "r_lock"]
            /\ UNCHANGED <<req, escrow, obs, resp, budget, overlap>>

\* The duplicate check, read without the lock (escrow.go 199-206).
ReleaseEscrow_Dup(p) ==
    /\ At(p, "r_dup")
    /\ UNCHANGED <<clock, heap, escrows, escrowsMutex>>
    /\ LET sigs == heap[escrow[p]].ReleaseSignatures IN
       IF \E i \in 1..Len(sigs) : sigs[i] = req[p].party
       THEN Fail(p, "duplicate signature") /\ UNCHANGED <<escrow, obs>>
       ELSE /\ pc' = [pc EXCEPT ![p] = "r_lock"]
            /\ UNCHANGED <<req, escrow, obs, resp, budget, overlap>>

\* The append of the release handler without escrowsMutex.Lock().
ReleaseEscrow_NoLock(p) ==
    /\ At(p, "r_lock")
    /\ heap' = Store(escrow[p], "ReleaseSignatures",
                     Append(heap[escrow[p]].ReleaseSignatures, req[p].party))
    /\ pc' = [pc EXCEPT ![p] = "r_thresh"]
    /\ UNCHANGED <<clock, escrows, escrowsMutex, req, escrow, obs, resp, budget,
                   overlap>>

\* The release handler putting the new signature in front.
ReleaseEscrow_Prepend(p) ==
    /\ At(p, "r_lock")
    /\ CanLock
    /\ escrowsMutex' = Locked(p)
    /\ heap' = Store(escrow[p], "ReleaseSignatures",
                     <<req[p].party>> \o heap[escrow[p]].ReleaseSignatures)
    /\ pc' = [pc EXCEPT ![p] = "r_thresh"]
    /\ UNCHANGED <<clock, escrows, req, escrow, obs, resp, budget, overlap>>

\* Lock; append the signature (escrow.go 217-221).
ReleaseEscrow_Lock(p) ==
    /\ At(p, "r_lock")
    /\ CanLock
    /\ escrowsMutex' = Locked(p)
    /\ heap' = Store(escrow[p], "ReleaseSignatures",
                     Append(heap[escrow[p]].ReleaseSignatures, req[p].party))
    /\ pc' = [pc EXCEPT ![p] = "r_thresh"]
    /\ UNCHANGED <<clock, escrows, req, escrow, obs, resp, budget, overlap>>

\* The threshold check that takes the fee off the record's Amount.
ReleaseEscrow_ThreshFee(p) ==
    /\ At(p, "r_thresh")
    /\ LET e == heap[escrow[p]] IN
       IF Len(e.ReleaseSignatures) >= 2
       THEN /\ \E now \in clock..MaxClock :
                 /\ clock' = now
                 /\ obs' = Called(p, e.MultiSigAddress, e.SellerPubKey,
                                  e.Amount - Fee, now)
            /\ heap' = [heap EXCEPT ![escrow[p]] =
                            [@ EXCEPT !.Status = "released",
                                      !.Amount = @ - Fee]]
            /\ pc' = [pc EXCEPT ![p] = "r_txid"]
            /\ UNCHANGED <<escrows, escrowsMutex, req, escrow, resp, budget, overlap>>
       ELSE /\ heap' = Store(escrow[p], "Status", "releasing")
            /\ escrows' = [escrows EXCEPT ![req[p].id] = escrow[p]]
            /\ escrowsMutex' = Unlocked
            /\ Reply(p, "releasing", e.ReleaseTxID, Len(e.ReleaseSignatures))
            /\ UNCHANGED clock

\* The threshold check of the release handler paying the buyer.
ReleaseEscrow_ThreshBuyer(p) ==
    /\ At(p, "r_thresh")
    /\ LET e == heap[escrow[p]] IN
       IF Len(e.ReleaseSignatures) >= 2
       THEN /\ \E now \in clock..MaxClock :
                 /\ clock' = now
                 /\ obs' = Called(p, e.MultiSigAddress, e.BuyerPubKey,
                                  e.Amount - Fee, now)
            /\ heap' = Store(escrow[p], "Status", "released")
            /\ pc' = [pc EXCEPT ![p] = "r_txid"]
            /\ UNCHANGED <<escrows, escrowsMutex, req, escrow, resp, budget, overlap>>
       ELSE /\ heap' = Store(escrow[p], "Status", "releasing")
            /\ escrows' = [escrows EXCEPT ![req[p].id] = escrow[p]]
            /\ escrowsMutex' = Unlocked
            /\ Reply(p, "releasing", e.ReleaseTxID, Len(e.ReleaseSignatures))
            /\ UNCHANGED clock

\* The threshold check of the release handler asking for three signatures.
ReleaseEscrow_ThreshThree(p) ==
    /\ At(p, "r_thresh")
    /\ LET e == heap[escrow[p]] IN
       IF Len(e.ReleaseSignatures) >= 3
       THEN /\ \E now \in clock..MaxClock :
                 /\ clock' = now
                 /\ obs' = Called(p, e.MultiSigAddress, e.SellerPubKey,
                                  e.Amount - Fee, now)
            /\ heap' = Store(escrow[p], "Status", "released")
            /\ pc' = [pc EXCEPT ![p] = "r_txid"]
            /\ UNCHANGED <<escrows, escrowsMutex, req, escrow, resp, budget, overlap>>
       ELSE /\ heap' = Store(escrow[p], "Status", "releasing")
            /\ escrows' = [escrows EXCEPT ![req[p].id] = escrow[p]]
            /\ escrowsMutex' = Unlocked
            /\ Reply(p, "releasing", e.ReleaseTxID, Len(e.ReleaseSignatures))
            /\ UNCHANGED clock

\* The threshold check: at two signatures CreateTransaction and
\* Status = "released" (escrow.go 224-247), else Status = "releasing", the
\* map store, the response and the deferred Unlock (escrow.go 252-267).
ReleaseEscrow_Thresh(p) ==
    /\ At(p, "r_thresh")
    /\ LET e == heap[escrow[p]] IN
       IF Len(e.ReleaseSignatures) >= 2
       THEN /\ \E now \in clock..MaxClock :
                 /\ clock' = now
                 /\ obs' = Called(p, e.MultiSigAddress, e.SellerPubKey,
                                  e.Amount - Fee, now)
            /\ heap' = Store(escrow[p], "Status", "released")
            /\ pc' = [pc EXCEPT ![p] = "r_txid"]
            /\ UNCHANGED <<escrows, escrowsMutex, req, escrow, resp, budget, overlap>>
       ELSE /\ heap' = Store(escrow[p], "Status", "releasing")
            /\ escrows' = [escrows EXCEPT ![req[p].id] = escrow[p]]
            /\ escrowsMutex' = Unlocked
            /\ Reply(p, "releasing", e.ReleaseTxID, Len(e.ReleaseSignatures))
            /\ UNCHANGED clock

\* The release handler leaving ReleaseTxID as it is.
ReleaseEscrow_NoTxID(p) ==
    /\ At(p, "r_txid")
    /\ escrows' = [escrows EXCEPT ![req[p].id] = escrow[p]]
    /\ escrowsMutex' = Unlocked
    /\ Reply(p, heap[escrow[p]].Status, obs[p].txid,
             Len(heap[escrow[p]].ReleaseSignatures))
    /\ UNCHANGED <<clock, heap>>

\* escrow.ReleaseTxID = releaseTransaction.TxID; the map store, the response
\* and the deferred Unlock (escrow.go 248-267).
ReleaseEscrow_TxID(p) ==
    /\ At(p, "r_txid")
    /\ heap' = Store(escrow[p], "ReleaseTxID", obs[p].txid)
    /\ escrows' = [escrows EXCEPT ![req[p].id] = escrow[p]]
    /\ escrowsMutex' = Unlocked
    /\ Reply(p, heap[escrow[p]].Status, obs[p].txid,
             Len(heap[escrow[p]].ReleaseSignatures))
    /\ UNCHANGED clock

(***************************************************************************)
(* RefundEscrow                                                            *)
(***************************************************************************)
\* Validation and RLock (escrow.go 283-298).
RefundEscrow_Begin(p) ==
    /\ Free(p)
    /\ \E r \in SignRequests("refund") :
        \/ /\ MissingField(r)
           /\ Reject(p, r, "missing required fields")
           /\ UNCHANGED <<clock, heap, escrows, escrowsMutex, escrow, obs>>
        \/ /\ ~MissingField(r)
           /\ r.party \notin Parties
           /\ Reject(p, r, "invalid party type")
           /\ UNCHANGED <<clock, heap, escrows, escrowsMutex, escrow, obs>>
        \/ /\ ~MissingField(r)
           /\ r.party \in Parties
           /\ CanRLock
           /\ escrowsMutex' = RLocked(p)
           /\ Goto(p, r, "f_get")
           /\ UNCHANGED <<clock, heap, escrows, escrow, obs>>

\* escrow, exists := escrows[req.EscrowID]; RUnlock (escrow.go 299-305).
RefundEscrow_Get(p) ==
    /\ At(p, "f_get")
    /\ Lookup(p, "f_status")

\* The status check, read without the lock (escrow.go 307-314).
RefundEscrow_Status(p) ==
    /\ At(p, "f_status")
    /\ UNCHANGED <<clock, heap, escrows, escrowsMutex>>
    /\ LET status == heap[escrow[p]].Status IN
       /\ obs' = [obs EXCEPT ![p].status = status]
       /\ UNCHANGED escrow
       /\ IF status # "funded" /\ status # "refunding"
          THEN Fail(p, "invalid escrow status")
          ELSE /\ pc' = [pc EXCEPT ![p] = "f_dup"]
               /\ UNCHANGED <<req, resp, budget, overlap>>

\* The duplicate check, read without the lock (escrow.go 319-326).
RefundEscrow_Dup(p) ==
    /\ At(p, "f_dup")
    /\ UNCHANGED <<clock, heap, escrows, escrowsMutex>>
    /\ LET sigs == heap[escrow[p]].RefundSignatures IN
       IF \E i \in 1..Len(sigs) : sigs[i] = req[p].party
       THEN Fail(p, "duplicate signature") /\ UNCHANGED <<escrow, obs>>
       ELSE /\ pc' = [pc EXCEPT ![p] = "f_lock"]
            /\ UNCHANGED <<req, escrow, obs, resp, budget, overlap>>

\* Lock; append the signature (escrow.go 337-341).
RefundEscrow_Lock(p) ==
    /\ At(p, "f_lock")
    /\ CanLock
    /\ escrowsMutex' = Locked(p)
    /\ heap' = Store(escrow[p], "RefundSignatures",
                     Append(heap[escrow[p]].RefundSignatures, req[p].party))
    /\ pc' = [pc EXCEPT ![p] = "f_thresh"]
    /\ UNCHANGED <<clock, escrows, req, escrow, obs, resp, budget, overlap>>

\* The threshold check: at two signatures CreateTransaction and
\* Status = "refunded" (escrow.go 344-358), else Status = "refunding", the
\* map store, the response and the deferred Unlock (escrow.go 363-378).
RefundEscrow_Thresh(p) ==
    /\ At(p, "f_thresh")
    /\ LET e == heap[escrow[p]] IN
       IF Len(e.RefundSignatures) >= 2
       THEN /\ \E now \in clock..MaxClock :
                 /\ clock' = now
                 /\ obs' = Called(p, e.MultiSigAddress, e.BuyerPubKey,
                                  e.Amount - Fee, now)
            /\ heap' = Store(escrow[p], "Status", "refunded")
            /\ pc' = [pc EXCEPT ![p] = "f_txid"]
            /\ UNCHANGED <<escrows, escrowsMutex, req, escrow, resp, budget, overlap>>
       ELSE /\ heap' = Store(escrow[p], "Status", "refunding")
            /\ escrows' = [escrows EXCEPT ![req[p].id] = escrow[p]]
            /\ escrowsMutex' = Unlocked
            /\ Reply(p, "refunding", e.RefundTxID, Len(e.RefundSignatures))
            /\ UNCHANGED clock

\* escrow.RefundTxID = refundTransaction.TxID; the map store, the response
\* and the deferred Unlock (escrow.go 359-378).
RefundEscrow_TxID(p) ==
    /\ At(p, "f_txid")
    /\ heap' = Store(escrow[p], "RefundTxID", obs[p].txid)
    /\ escrows' = [escrows EXCEPT ![req[p].id] = escrow[p]]
    /\ escrowsMutex' = Unlocked
    /\ Reply(p, heap[escrow[p]].Status, obs[p].txid,
             Len(heap[escrow[p]].RefundSignatures))
    /\ UNCHANGED clock

(***************************************************************************)
(* GetEscrow                                                               *)
(***************************************************************************)
GetRequests ==
    [kind : {"get"}, id : 0..MaxClock, party : {""}, blobs : {NoKeys},
     txid : {Empty}, keys : {NoKeys}, amount : {0}]

\* The id parameter and RLock (escrow.go 485-492).
GetEscrow_Begin(p) ==
    /\ Free(p)
    /\ \E r \in GetRequests :
        \/ /\ r.id = 0
           /\ Reject(p, r, "missing escrow ID")
           /\ UNCHANGED <<clock, heap, escrows, escrowsMutex, escrow, obs>>
        \/ /\ r.id # 0
           /\ CanRLock
           /\ escrowsMutex' = RLocked(p)
           /\ Goto(p, r, "g_get")
           /\ UNCHANGED <<clock, heap, escrows, escrow, obs>>

\* escrow, exists := escrows[escrowID]; RUnlock (escrow.go 493-499).
GetEscrow_Get(p) ==
    /\ At(p, "g_get")
    /\ Lookup(p, "g_read")

\* The response, built from the record's fields without the lock
\* (escrow.go 501-554).
GetEscrow_Read(p) ==
    /\ At(p, "g_read")
    /\ LET e == heap[escrow[p]] IN
       Reply(p, e.Status, e.PaymentTxID, Len(e.ReleaseSignatures))
    /\ UNCHANGED <<clock, heap, escrows, escrowsMutex>>

(***************************************************************************)
(* The service                                                             *)
(***************************************************************************)
\* The goroutine ends once its response is written, and is free for the next
\* request; after the last request of the model the responses stay.
Return(p) ==
    /\ pc[p] = "done"
    /\ budget > 0
    /\ pc' = [pc EXCEPT ![p] = "idle"]
    /\ req' = [req EXCEPT ![p] = NoReq]
    /\ resp' = [resp EXCEPT ![p] = NoResp]
    /\ escrow' = [escrow EXCEPT ![p] = Nil]
    /\ obs' = [obs EXCEPT ![p] = NoObs]
    /\ UNCHANGED <<clock, heap, escrows, escrowsMutex, budget, overlap>>

\* One step of one goroutine.
Next ==
    \E p \in Procs :
        \/ CreateEscrow_Begin(p) \/ CreateEscrow_Put(p)
        \/ VerifyPayment_Begin(p) \/ VerifyPayment_Get(p)
        \/ VerifyPayment_Check(p) \/ VerifyPayment_Lock(p)
        \/ VerifyPayment_TxID(p)
        \/ ReleaseEscrow_Begin(p) \/ ReleaseEscrow_Get(p)
        \/ ReleaseEscrow_Status(p) \/ ReleaseEscrow_Dup(p)
        \/ ReleaseEscrow_Lock(p) \/ ReleaseEscrow_Thresh(p)
        \/ ReleaseEscrow_TxID(p)
        \/ RefundEscrow_Begin(p) \/ RefundEscrow_Get(p)
        \/ RefundEscrow_Status(p) \/ RefundEscrow_Dup(p)
        \/ RefundEscrow_Lock(p) \/ RefundEscrow_Thresh(p)
        \/ RefundEscrow_TxID(p)
        \/ GetEscrow_Begin(p) \/ GetEscrow_Get(p) \/ GetEscrow_Read(p)
        \/ Return(p)

Spec == Init /\ [][Next]_vars
SpecSeq == InitSeq /\ [][Next]_vars
SpecTail == InitTail /\ [][Next]_vars
SpecLong == Start(MaxLongRequests, 0) /\ [][Next]_vars

\* A step of goroutine p: every step of a handler moves its goroutine on.
Moves(p) == Next /\ pc'[p] # pc[p]
\* Requests, the last MaxOverlap of them overlapping, served by goroutines none
\* of which is left behind for ever: the Go scheduler preempts, and a goroutine blocked in Lock or RLock is
\* handed the mutex (sync.RWMutex does not starve a waiter).
SpecFair ==
    /\ Start(MaxRequests, MaxOverlap)
    /\ [][Next]_vars
    /\ \A p \in Procs : SF_vars(Moves(p))

(***************************************************************************)
(* Properties                                                              *)
(***************************************************************************)
Objects == 1..Len(heap)
Distinct(sigs) == Cardinality(SignedParties(sigs))
Times(sigs, party) == Cardinality({i \in 1..Len(sigs) : sigs[i] = party})
\* Goroutine p has answered a request of this kind that addressed a record.
Answered(p, kind) ==
    pc[p] = "done" /\ req[p].kind = kind /\ escrow[p] # Nil
Settled == {"released", "refunded"}

\* C1: a record is released (has a release transaction) only with release
\* signatures of at least two distinct parties, and refunded (has a refund
\* transaction) only with refund signatures of at least two distinct parties,
\* in every interleaving.
ThresholdOfDistinctParties ==
    \A r \in Objects :
        LET e == heap[r] IN
        /\ (e.Status = "released" \/ e.ReleaseTxID # Empty)
            => Distinct(e.ReleaseSignatures) >= 2
        /\ (e.Status = "refunded" \/ e.RefundTxID # Empty)
            => Distinct(e.RefundSignatures) >= 2

\* C2: no party occurs twice in the release signatures of a record, nor in
\* its refund signatures.
OneSignaturePerParty ==
    \A r \in Objects : \A party \in Parties :
        /\ Times(heap[r].ReleaseSignatures, party) <= 1
        /\ Times(heap[r].RefundSignatures, party) <= 1

\* C3: once the status of a record is released or refunded, no step changes
\* it.
TerminalStatusStays ==
    [][\A r \in Objects :
          heap[r].Status \in Settled => heap'[r].Status = heap[r].Status]_vars

\* C4: of two overlapping release submissions from distinct parties, one of
\* which found the record funded, one answers releasing and the other
\* released.
OneReleasingOneReleased ==
    \A p, q \in Procs :
        ( /\ p # q
          /\ Answered(p, "release") /\ Answered(q, "release")
          /\ escrow[p] = escrow[q]
          /\ req[p].party # req[q].party
          /\ obs[p].status = "funded" )
        => /\ resp[p].err = "" /\ resp[q].err = ""
           /\ {resp[p].status, resp[q].status} = {"releasing", "released"}

\* C5: between the guard checks of a signature submission and its append, no
\* other goroutine writes to the record.
BetweenChecksAndAppend == {"r_dup", "r_lock", "f_dup", "f_lock"}
AtomicSubmission ==
    [][\A p \in Procs :
          (pc[p] \in BetweenChecksAndAppend /\ pc'[p] = pc[p])
          => heap'[escrow[p]] = heap[escrow[p]]]_vars

\* C6: VerifyPayment on a record it found releasing, refunding, released or
\* refunded answers an error and leaves the status as it was.
VerifyOnlyCreated ==
    \A p \in Procs :
        ( /\ Answered(p, "verify")
          /\ obs[p].status \in {"releasing", "refunding"} \cup Settled )
        => /\ resp[p].err # ""
           /\ heap[escrow[p]].Status = obs[p].status

\* C7: a step that sets the status to released finds it releasing, one that
\* sets it to refunded finds it refunding, and one that sets it to releasing
\* (refunding) finds no release (refund) signature but the one just appended.
NoSkippedStatus ==
    [][\A p \in Procs :
          LET e == heap[escrow[p]]
              status == heap'[escrow[p]].Status IN
          /\ (pc[p] = "r_thresh" /\ pc'[p] # "r_thresh") =>
                /\ status = "released" => e.Status = "releasing"
                /\ status = "releasing" => Len(e.ReleaseSignatures) = 1
          /\ (pc[p] = "f_thresh" /\ pc'[p] # "f_thresh") =>
                /\ status = "refunded" => e.Status = "refunding"
                /\ status = "refunding" => Len(e.RefundSignatures) = 1]_vars

\* C8: served alone, a release signature on a funded record answers releasing
\* with one signature and no transaction id, and the next one, from another
\* party, answers released with two signatures and a transaction id.
ReleaseInTwoSteps ==
    \A p \in Procs :
        Answered(p, "release") =>
            LET e == heap[escrow[p]] IN
            /\ obs[p].status = "funded" =>
                /\ resp[p] = Response("", "releasing", Empty, 1)
                /\ e.Status = "releasing"
                /\ Len(e.ReleaseSignatures) = 1 /\ e.ReleaseTxID = Empty
            /\ (obs[p].status = "releasing"
                    /\ resp[p].err # "duplicate signature") =>
                /\ resp[p].err = "" /\ resp[p].status = "released"
                /\ resp[p].count = 2 /\ resp[p].txid # Empty
                /\ e.Status = "released"
                /\ Len(e.ReleaseSignatures) = 2 /\ e.ReleaseTxID = resp[p].txid

\* C9: served alone, a refund signature on a funded record answers refunding
\* with one signature and no transaction id, and the next one, from another
\* party, answers refunded with two signatures and a transaction id.
RefundInTwoSteps ==
    \A p \in Procs :
        Answered(p, "refund") =>
            LET e == heap[escrow[p]] IN
            /\ obs[p].status = "funded" =>
                /\ resp[p] = Response("", "refunding", Empty, 1)
                /\ e.Status = "refunding"
                /\ Len(e.RefundSignatures) = 1 /\ e.RefundTxID = Empty
            /\ (obs[p].status = "refunding"
                    /\ resp[p].err # "duplicate signature") =>
                /\ resp[p].err = "" /\ resp[p].status = "refunded"
                /\ resp[p].count = 2 /\ resp[p].txid # Empty
                /\ e.Status = "refunded"
                /\ Len(e.RefundSignatures) = 2 /\ e.RefundTxID = resp[p].txid

\* The release handler of p answers a party whose signature the record holds.
AnswersSigner(p) ==
    /\ pc[p] \in {"r_status", "r_dup"}
    /\ pc'[p] # pc[p]
    /\ req[p].party \in SignedParties(heap[escrow[p]].ReleaseSignatures)

\* C10 as stated: served alone, a release submission from a party whose
\* release signature the record holds answers DuplicateSignature and leaves
\* the release signatures as they are.
SecondAttemptIsDuplicate ==
    [][\A p \in Procs :
          AnswersSigner(p) =>
              \/ pc'[p] = "r_dup"
              \/ /\ pc'[p] = "done"
                 /\ resp'[p].err = "duplicate signature"
                 /\ heap' = heap]_vars

\* C10 as amended: it answers DuplicateSignature while the status is funded
\* or releasing and InvalidStatus in any other status, and leaves the release
\* signatures as they are.
SecondAttemptIsRejected ==
    [][\A p \in Procs :
          AnswersSigner(p) =>
              \/ pc'[p] = "r_dup"
              \/ /\ pc'[p] = "done"
                 /\ resp'[p].err =
                        IF heap[escrow[p]].Status \in {"funded", "releasing"}
                        THEN "duplicate signature"
                        ELSE "invalid escrow status"
                 /\ heap' = heap]_vars

\* A second release submission of a party is answered DuplicateSignature.
SecondAttemptSeen ==
    \E p \in Procs :
        /\ Answered(p, "release")
        /\ resp[p].err = "duplicate signature"
        /\ req[p].party \in SignedParties(heap[escrow[p]].ReleaseSignatures)

\* The record the request that goroutine p takes in this step addresses
\* (Nil: none).
Addressed(p) == IF req'[p].id = 0 THEN Nil ELSE escrows[req'[p].id]
\* Goroutine p takes a request of this kind in this step.
Takes(p, kind) == pc[p] = "idle" /\ pc'[p] # "idle" /\ req'[p].kind = kind
\* Goroutine p takes a VerifyPayment request for a funded record.
VerifiesFunded(p) ==
    /\ Takes(p, "verify")
    /\ Addressed(p) # Nil
    /\ heap[Addressed(p)].Status = "funded"
\* The status check of VerifyPayment reads funded: AlreadyFunded, and the record
\* stays as it is.
AlreadyFunded(p) ==
    (pc[p] = "v_check" /\ pc'[p] # "v_check"
        /\ heap[escrow[p]].Status = "funded")
    => /\ pc'[p] = "done"
       /\ resp'[p].err = "payment already verified"
       /\ heap' = heap

\* C11 as stated: VerifyPayment on a funded record answers AlreadyFunded,
\* whatever the txid, and changes neither Status nor PaymentTxID.
FundedIsAlreadyFunded ==
    [][\A p \in Procs :
          /\ VerifiesFunded(p) => (pc'[p] = "v_get" /\ heap' = heap)
          /\ AlreadyFunded(p)]_vars

\* C11 as amended: VerifyPayment on a funded record answers AlreadyFunded
\* whatever non-empty txid is supplied, well-formed or not, and a validation
\* error when the txid is empty; in both cases Status and PaymentTxID stay as
\* they are.
FundedIsAlreadyFundedOrInvalid ==
    [][\A p \in Procs :
          /\ VerifiesFunded(p) =>
                /\ heap' = heap
                /\ IF req'[p].txid = Empty
                   THEN /\ pc'[p] = "done"
                        /\ resp'[p].err = "missing required fields"
                   ELSE pc'[p] = "v_get"
          /\ AlreadyFunded(p)]_vars

\* VerifyPayment with a malformed txid on a funded record was answered
\* AlreadyFunded.
AlreadyFundedSeen ==
    \E p \in Procs :
        /\ Answered(p, "verify")
        /\ obs[p].status = "funded"
        /\ VerifyTransaction(req[p].txid) # ""
        /\ resp[p].err = "payment already verified"
        /\ heap[escrow[p]].Status = "funded"
        /\ heap[escrow[p]].PaymentTxID \in knownTransactions

\* A signature request that passes validation.
WellFormed(r) == ~MissingField(r) /\ r.party \in Parties
\* Goroutine p takes a well-formed signature request of this kind for a record
\* whose status is not among open: the handler goes on to its lookup.
SubmitsOutside(p, kind, open, at) ==
    ( /\ Takes(p, kind) /\ WellFormed(req'[p])
      /\ Addressed(p) # Nil
      /\ heap[Addressed(p)].Status \notin open )
    => (pc'[p] = at /\ heap' = heap)
\* The status check of a signature handler reads a status not among open:
\* InvalidStatus, and the record stays as it is.
InvalidStatus(p, at, open) ==
    (pc[p] = at /\ pc'[p] # at /\ heap[escrow[p]].Status \notin open)
    => /\ pc'[p] = "done"
       /\ resp'[p].err = "invalid escrow status"
       /\ heap' = heap /\ escrows' = escrows

\* C13: a release submission on a record whose status is neither funded nor
\* releasing, and a refund submission on a record whose status is neither
\* funded nor refunding, is answered InvalidStatus and leaves the record as it
\* is; so is any release submission on a released record.
SubmissionOutsideStatus ==
    [][\A p \in Procs :
          /\ SubmitsOutside(p, "release", {"funded", "releasing"}, "r_get")
          /\ InvalidStatus(p, "r_status", {"funded", "releasing"})
          /\ SubmitsOutside(p, "refund", {"funded", "refunding"}, "f_get")
          /\ InvalidStatus(p, "f_status", {"funded", "refunding"})]_vars

\* A release submission on a released record was answered InvalidStatus.
ReleasedRejectsRelease ==
    \E p \in Procs :
        /\ Answered(p, "release")
        /\ obs[p].status = "released"
        /\ resp[p].err = "invalid escrow status"
        /\ heap[escrow[p]].Status = "released"
        /\ Len(heap[escrow[p]].ReleaseSignatures) = 2

\* A txid of 64 hexadecimal characters that is a key of knownTransactions.
Settles(txID) ==
    /\ Len(txID) = TxIDLen
    /\ \A i \in 1..Len(txID) : txID[i] \in HexChars
    /\ txID \in knownTransactions
\* Goroutine p takes a VerifyPayment request for a created record: an empty
\* txid is rejected at once, any other goes on to the lookup.
VerifiesCreated(p) ==
    ( /\ Takes(p, "verify")
      /\ Addressed(p) # Nil
      /\ heap[Addressed(p)].Status = "created" )
    => /\ heap' = heap
       /\ IF req'[p].txid = Empty
          THEN pc'[p] = "done" /\ resp'[p].err # ""
          ELSE pc'[p] = "v_get"
\* The checks of VerifyPayment on a created record: a txid that does not
\* settle is an error and the record stays as it is.
ChecksCreated(p) ==
    (pc[p] = "v_check" /\ pc'[p] # "v_check"
        /\ heap[escrow[p]].Status = "created")
    => IF Settles(req[p].txid)
       THEN pc'[p] = "v_lock" /\ heap' = heap
       ELSE /\ pc'[p] = "done" /\ resp'[p].err \notin {"", "none"}
            /\ heap' = heap
\* VerifyPayment answers 200 with the record funded and the txid recorded.
Funds(p) ==
    (pc[p] = "v_txid" /\ pc'[p] # "v_txid")
    => /\ pc'[p] = "done" /\ resp'[p].err = ""
       /\ heap'[escrow[p]].Status = "funded"
       /\ heap'[escrow[p]].PaymentTxID = req[p].txid
\* Record r leaves created, or gets another PaymentTxID, only by a
\* VerifyPayment whose txid settles.
FundedOnlyBySettled(r) ==
    /\ (heap[r].Status = "created" /\ heap'[r].Status # "created") =>
            /\ heap'[r].Status = "funded"
            /\ \E p \in Procs :
                /\ pc[p] = "v_lock" /\ escrow[p] = r /\ Settles(req[p].txid)
    /\ heap'[r].PaymentTxID # heap[r].PaymentTxID =>
            \E p \in Procs :
                /\ pc[p] = "v_txid" /\ escrow[p] = r /\ Settles(req[p].txid)
                /\ heap'[r].PaymentTxID = req[p].txid

ValidCreation(r) ==
    /\ \A i \in 1..3 : r.keys[i] # ""
    /\ CreateMultiSig(r.keys[1], r.keys[2], r.keys[3]) # Empty
    /\ r.amount > 0
\* Record e is as CreateEscrow makes it from request r.
AsCreated(e, r) ==
    /\ e.Status = "created"
    /\ e.MultiSigAddress # Empty
    /\ e.BuyerPubKey = r.keys[1] /\ e.SellerPubKey = r.keys[2]
    /\ e.EscrowPubKey = r.keys[3] /\ e.Amount = r.amount
    /\ e.ReleaseSignatures = << >> /\ e.RefundSignatures = << >>
    /\ e.PaymentTxID = Empty /\ e.ReleaseTxID = Empty /\ e.RefundTxID = Empty

\* C15: for valid creation inputs CreateEscrow stores and returns a record
\* with status created, a non-empty multisig address, no release and no refund
\* signature, and empty payment, release and refund transaction ids.
CreatesCreated ==
    [][\A p \in Procs :
          /\ (Takes(p, "create") /\ ValidCreation(req'[p])) =>
                /\ pc'[p] = "c_put"
                /\ escrow'[p] \notin DOMAIN heap
                /\ AsCreated(heap'[escrow'[p]], req'[p])
          /\ (pc[p] = "c_put" /\ pc'[p] # "c_put") =>
                /\ pc'[p] = "done"
                /\ resp'[p] = Response("", "created", Empty, 0)
                /\ AsCreated(heap'[escrow[p]], req[p])
                /\ escrows'[heap'[escrow[p]].ID] = escrow[p]]_vars

\* CreateEscrow has answered 201 and the store holds the created record.
CreatedStored ==
    \E p \in Procs :
        /\ Answered(p, "create")
        /\ resp[p] = Response("", "created", Empty, 0)
        /\ ValidCreation(req[p])
        /\ escrows[heap[escrow[p]].ID] = escrow[p]
        /\ AsCreated(heap[escrow[p]], req[p])

\* C16: CreateEscrow with an amount of zero or less, with one of the three
\* public keys empty, or with keys from which no address derives answers an
\* error and inserts no record: the store stays as it is.
InvalidCreationStoresNothing ==
    [][\A p \in Procs :
          (Takes(p, "create") /\ ~ValidCreation(req'[p])) =>
              /\ pc'[p] = "done"
              /\ resp'[p].err \in
                    {"missing required fields", "invalid amount",
                     "failed to create multisig address"}
              /\ escrows' = escrows /\ heap' = heap]_vars

\* CreateEscrow with a key that does not decode and a positive amount was
\* answered an error.
DerivationFailed ==
    \E p \in Procs :
        /\ pc[p] = "done" /\ req[p].kind = "create"
        /\ \A i \in 1..3 : req[p].keys[i] # ""
        /\ req[p].amount > 0
        /\ resp[p].err = "failed to create multisig address"
        /\ escrow[p] = Nil

\* C17: CreateEscrow adds its record under an identifier the store did not
\* hold, also when two CreateEscrow requests overlap or read the same clock
\* value, and no step removes the record of an identifier or puts another
\* record in its place.
IdentifiersNeverReused ==
    [][\A id \in IDs : escrows[id] # Nil => escrows'[id] = escrows[id]]_vars

\* Steps of the handlers between Lock and Unlock, and between RLock and
\* RUnlock.
WriteSection == {"v_txid", "r_thresh", "r_txid", "f_thresh", "f_txid"}
ReadSection == {"v_get", "r_get", "f_get", "g_get"}
\* Steps at which a handler waits for Lock.
BeforeLock == {"c_put", "v_lock", "r_lock", "f_lock"}

\* C18: at most one request is inside a write-locked section of the store at
\* any time, whatever the identifiers, and none is inside a read-locked
\* section while another is inside a write-locked one.
OneWriterNoReaders ==
    \A p, q \in Procs :
        (p # q /\ pc[p] \in WriteSection)
        => pc[q] \notin WriteSection \cup ReadSection

\* A request is inside a write-locked section while another waits for Lock.
WriterKeepsOut ==
    \E p, q \in Procs :
        /\ p # q
        /\ pc[p] \in WriteSection /\ escrowsMutex.writer = p
        /\ pc[q] \in BeforeLock

\* Request r passes the validation of its handler.
Passes(r) ==
    CASE r.kind = "verify" -> r.id # 0 /\ r.txid # Empty
      [] r.kind = "get" -> r.id # 0
      [] r.kind \in {"release", "refund"} -> WellFormed(r)
      [] OTHER -> FALSE
\* Goroutine p takes a request for an identifier the store does not hold: the
\* handler goes on to its lookup.
AsksUnknown(p) ==
    ( /\ pc[p] = "idle" /\ pc'[p] # "idle"
      /\ Passes(req'[p])
      /\ escrows[req'[p].id] = Nil )
    => (pc'[p] \in ReadSection /\ escrows' = escrows /\ heap' = heap)
\* The lookup of a handler finds no entry: EscrowNotFound, and the store stays
\* as it is.
NotFound(p) ==
    (pc[p] \in ReadSection /\ pc'[p] # pc[p] /\ escrows[req[p].id] = Nil)
    => /\ pc'[p] = "done"
       /\ resp'[p].err = "escrow not found"
       /\ escrows' = escrows /\ heap' = heap

\* C19: VerifyPayment, a release submission, a refund submission and GetEscrow
\* on an identifier the store does not hold each answer EscrowNotFound and
\* leave the store as it is: no record is created.
UnknownIdentifierNotFound ==
    [][\A p \in Procs : AsksUnknown(p) /\ NotFound(p)]_vars

\* A refund submission on an identifier the store does not hold was answered
\* EscrowNotFound.
RefundNotFound ==
    \E p \in Procs :
        /\ pc[p] = "done" /\ req[p].kind = "refund"
        /\ req[p].id # 0
        /\ escrows[req[p].id] = Nil
        /\ resp[p].err = "escrow not found"
        /\ \E id \in IDs : escrows[id] # Nil

\* The fields of a record that CreateEscrow sets and no handler assigns.
Fixed(e) ==
    <<e.ID, e.BuyerPubKey, e.SellerPubKey, e.EscrowPubKey, e.MultiSigAddress,
      e.Amount>>

\* C20: the amount of a record is greater than zero when it is created and no
\* step changes it afterwards, nor the record's identifier, its three public
\* keys and its multisig address.
AmountPositiveAndFixed ==
    [][\A r \in 1..Len(heap') :
          IF r \in Objects
          THEN Fixed(heap'[r]) = Fixed(heap[r])
          ELSE heap'[r].Amount > 0]_vars

\* A record has been funded and released, its amount greater than zero and
\* its address the one that derives from its keys.
ReleasedKeepsAmount ==
    \E r \in Objects :
        LET e == heap[r] IN
        /\ e.Status = "released" /\ e.ReleaseTxID # Empty
        /\ e.PaymentTxID # Empty
        /\ e.Amount > 0
        /\ e.MultiSigAddress =
                CreateMultiSig(e.BuyerPubKey, e.SellerPubKey, e.EscrowPubKey)

\* Sequence t is sequence s, or s with one entry added at its end.
Extends(s, t) ==
    /\ Len(t) \in {Len(s), Len(s) + 1}
    /\ SubSeq(t, 1, Len(s)) = s
\* The append of goroutine p adds the party of its request at the end of the
\* sequence of this field.
Appends(p, at, field) ==
    (pc[p] = at /\ pc'[p] # at)
    => heap'[escrow[p]][field] = Append(heap[escrow[p]][field], req[p].party)

\* C21: the signature sequences only grow, in the order of acceptance: an
\* accepted submission adds one entry at the end of its sequence and no step
\* removes, moves or changes an entry of a sequence.
SignaturesAppendOnly ==
    [][/\ \A r \in Objects :
            /\ Extends(heap[r].ReleaseSignatures, heap'[r].ReleaseSignatures)
            /\ Extends(heap[r].RefundSignatures, heap'[r].RefundSignatures)
       /\ \A p \in Procs :
            /\ Appends(p, "r_lock", "ReleaseSignatures")
            /\ Appends(p, "f_lock", "RefundSignatures")]_vars

\* A record holds the release signatures of two parties, in the order the
\* two submissions were answered.
TwoInOrder ==
    \E r \in Objects :
        /\ Len(heap[r].ReleaseSignatures) = 2
        /\ heap[r].ReleaseSignatures[1] # heap[r].ReleaseSignatures[2]
        /\ \E p \in Procs :
            /\ Answered(p, "release") /\ escrow[p] = r
            /\ resp[p].err = ""
            /\ req[p].party = heap[r].ReleaseSignatures[2]

\* The steps of the release handler and of the refund handler.
ReleaseSteps == {"r_get", "r_status", "r_dup", "r_lock", "r_thresh", "r_txid"}
RefundSteps == {"f_get", "f_status", "f_dup", "f_lock", "f_thresh", "f_txid"}
\* A step of goroutine p at one of these steps, or taking a request of kind.
StepOf(p, kind, steps) ==
    \/ pc[p] \in steps /\ pc'[p] # pc[p]
    \/ Takes(p, kind)
\* The duplicate check of goroutine p at step at passes when the sequence of
\* this field holds no entry of the party.
PassesDup(p, at, field, next) ==
    ( /\ pc[p] = at /\ pc'[p] # at
      /\ req[p].party \notin SignedParties(heap[escrow[p]][field]) )
    => pc'[p] = next

\* C22: a release submission changes neither the refund signatures nor
\* RefundTxID of any record, a refund submission neither the release
\* signatures nor ReleaseTxID, and the duplicate check of one sequence does
\* not read the other.
SequencesIndependent ==
    [][\A p \in Procs :
          /\ StepOf(p, "release", ReleaseSteps) =>
                \A r \in Objects :
                    /\ heap'[r].RefundSignatures = heap[r].RefundSignatures
                    /\ heap'[r].RefundTxID = heap[r].RefundTxID
          /\ StepOf(p, "refund", RefundSteps) =>
                \A r \in Objects :
                    /\ heap'[r].ReleaseSignatures = heap[r].ReleaseSignatures
                    /\ heap'[r].ReleaseTxID = heap[r].ReleaseTxID
          /\ PassesDup(p, "r_dup", "ReleaseSignatures", "r_lock")
          /\ PassesDup(p, "f_dup", "RefundSignatures", "f_lock")]_vars

\* A release signature was accepted from a party whose refund signature the
\* record holds.
SignedBoth ==
    \E p \in Procs :
        /\ Answered(p, "release")
        /\ resp[p].err = ""
        /\ req[p].party \in SignedParties(heap[escrow[p]].RefundSignatures)
        /\ req[p].party \in SignedParties(heap[escrow[p]].ReleaseSignatures)

\* Goroutine p is inside a handler.
Serving(p) == pc[p] \notin {"idle", "done"}
\* A goroutine that is not inside a handler holds neither Lock nor RLock.
LocksReleased ==
    \A p \in Procs :
        ~Serving(p) => (escrowsMutex.writer # p /\ p \notin escrowsMutex.readers)

Expired(e) == clock > e.ExpiresAt
\* Goroutine p takes the step at of its handler on an expired record.
OnExpired(p, at) ==
    pc[p] = at /\ pc'[p] # at /\ Expired(heap[escrow[p]])

\* C24: ExpiresAt is stored and not enforced: on a record past its ExpiresAt
\* VerifyPayment, a release submission, a refund submission and GetEscrow
\* are decided by the status, the txid and the signatures as on any other
\* record, and no step takes an expired record out of the store.
ExpiryNotEnforced ==
    [][/\ \A p \in Procs :
            /\ OnExpired(p, "v_check") =>
                  (pc'[p] = "v_lock" <=>
                      /\ heap[escrow[p]].Status # "funded"
                      /\ Settles(req[p].txid))
            /\ OnExpired(p, "r_status") =>
                  (pc'[p] = "r_dup" <=>
                      heap[escrow[p]].Status \in {"funded", "releasing"})
            /\ OnExpired(p, "f_status") =>
                  (pc'[p] = "f_dup" <=>
                      heap[escrow[p]].Status \in {"funded", "refunding"})
            /\ OnExpired(p, "g_read") =>
                  (pc'[p] = "done" /\ resp'[p].err = "")
       /\ \A id \in IDs : escrows[id] # Nil => escrows'[id] # Nil
       /\ \A r \in Objects :
            r \in DOMAIN heap' /\ heap'[r].ExpiresAt = heap[r].ExpiresAt]_vars

\* A release signature was accepted on a record past its ExpiresAt.
ExpiredReleased ==
    \E p \in Procs :
        /\ Answered(p, "release")
        /\ resp[p].err = ""
        /\ Expired(heap[escrow[p]])
        /\ escrows[req[p].id] = escrow[p]

\* C25: a release or refund submission whose party is none of buyer, seller
\* and escrow, or whose escrow id, private key, signature, party or public key
\* is empty, is answered a validation error before the store is consulted, and
\* leaves every record as it is.
MalformedSubmissionRejected ==
    [][\A p \in Procs :
          ((Takes(p, "release") \/ Takes(p, "refund")) /\ ~WellFormed(req'[p]))
          => /\ pc'[p] = "done"
             /\ resp'[p].err =
                    IF MissingField(req'[p]) THEN "missing required fields"
                    ELSE "invalid party type"
             /\ escrowsMutex' = escrowsMutex /\ escrow'[p] = Nil
             /\ heap' = heap /\ escrows' = escrows]_vars

\* A release submission of an unknown party for a funded record was answered
\* a validation error.
UnknownPartyRejected ==
    \E p \in Procs :
        /\ pc[p] = "done" /\ req[p].kind = "release"
        /\ ~MissingField(req[p]) /\ req[p].party \notin Parties
        /\ resp[p].err = "invalid party type"
        /\ escrows[req[p].id] # Nil
        /\ heap[escrows[req[p].id]].Status = "funded"
        /\ heap[escrows[req[p].id]].ReleaseSignatures = << >>

\* The settlement goroutine p asks for at step at goes from the multisig
\* address of its record to the key in this field, and its TxID is the one
\* stored at step next.
SettlesTo(p, at, next, key, field) ==
    /\ (pc[p] = at /\ pc'[p] = next) =>
            /\ obs'[p].from = heap[escrow[p]].MultiSigAddress
            /\ obs'[p].to = heap[escrow[p]][key]
            /\ obs'[p].txid # Empty
    /\ (pc[p] = next /\ pc'[p] # next) =>
            /\ heap'[escrow[p]][field] = obs[p].txid
            /\ obs[p].to = heap[escrow[p]][key]

\* C26: the settlement synthesized at the release threshold goes from the
\* multisig address of the record to its seller key, the one synthesized at
\* the refund threshold to its buyer key, whichever parties signed.
SettlementDirected ==
    [][\A p \in Procs :
          /\ SettlesTo(p, "r_thresh", "r_txid", "SellerPubKey", "ReleaseTxID")
          /\ SettlesTo(p, "f_thresh", "f_txid", "BuyerPubKey", "RefundTxID")]_vars

\* A release signed by buyer and escrow has been settled to the seller key.
SettledToSeller ==
    \E p \in Procs :
        /\ Answered(p, "release")
        /\ resp[p].err = "" /\ resp[p].status = "released"
        /\ SignedParties(heap[escrow[p]].ReleaseSignatures) = {"buyer", "escrow"}
        /\ obs[p].to = heap[escrow[p]].SellerPubKey
        /\ obs[p].from = heap[escrow[p]].MultiSigAddress
        /\ heap[escrow[p]].ReleaseTxID = obs[p].txid

\* C27: no record has both a release transaction id and a refund transaction
\* id: the funds are settled at most once, by release or by refund.
SettledOnce ==
    \A r \in Objects :
        heap[r].ReleaseTxID = Empty \/ heap[r].RefundTxID = Empty

\* Goroutine p synthesizes a settlement at step at only for a record that has
\* none in this field.
FirstSettlement(p, at, next, field) ==
    (pc[p] = at /\ pc'[p] = next) => heap[escrow[p]][field] = Empty

\* C28: for each record at most one release transaction and at most one
\* refund transaction is synthesized, and a ReleaseTxID or RefundTxID that is
\* set is not overwritten, also when the submissions of three parties on a
\* funded record overlap.
OneSettlementEach ==
    [][/\ \A p \in Procs :
            /\ FirstSettlement(p, "r_thresh", "r_txid", "ReleaseTxID")
            /\ FirstSettlement(p, "f_thresh", "f_txid", "RefundTxID")
       /\ \A r \in Objects :
            /\ heap[r].ReleaseTxID # Empty =>
                    heap'[r].ReleaseTxID = heap[r].ReleaseTxID
            /\ heap[r].RefundTxID # Empty =>
                    heap'[r].RefundTxID = heap[r].RefundTxID]_vars

\* C29: of two VerifyPayment requests with different known txids that overlap
\* on one created record at most one succeeds: a VerifyPayment stores its
\* txid only in a record that has none, and a PaymentTxID that is set never
\* changes.
PaymentVerifiedOnce ==
    [][/\ \A p \in Procs :
            (pc[p] = "v_txid" /\ pc'[p] = "done") =>
                heap[escrow[p]].PaymentTxID = Empty
       /\ \A r \in Objects :
            heap[r].PaymentTxID # Empty =>
                heap'[r].PaymentTxID = heap[r].PaymentTxID]_vars

\* C30: at most one of a record's release-signature and refund-signature
\* sequences is non-empty, also when a release and a refund submission
\* overlap on one funded record.
OneSequenceInUse ==
    \A r \in Objects :
        heap[r].ReleaseSignatures = << >> \/ heap[r].RefundSignatures = << >>

\* No request is inside its write-locked section on record r: between Lock
\* and Unlock a handler writes the fields of the record one after the other.
AtRest(r) == \A q \in Procs : ~(pc[q] \in WriteSection /\ escrow[q] = r)
\* A record in releasing has one release signature and no release
\* transaction, one in refunding one refund signature and no refund
\* transaction.
OneSignatureWhilePending(e) ==
    /\ e.Status = "releasing" =>
            (Len(e.ReleaseSignatures) = 1 /\ e.ReleaseTxID = Empty)
    /\ e.Status = "refunding" =>
            (Len(e.RefundSignatures) = 1 /\ e.RefundTxID = Empty)

\* C31 as stated: in every reachable state a record in releasing has exactly
\* one release signature and an empty ReleaseTxID, and a record in refunding
\* exactly one refund signature and an empty RefundTxID.
PendingHasOneSignature ==
    \A r \in Objects : OneSignatureWhilePending(heap[r])

\* C31: in every reachable state in which no request is inside its
\* write-locked section on the record, a record in releasing has exactly one
\* release signature and an empty ReleaseTxID, and a record in refunding
\* exactly one refund signature and an empty RefundTxID.
PendingHasOneSignatureAtRest ==
    \A r \in Objects : AtRest(r) => OneSignatureWhilePending(heap[r])

\* A record at rest in refunding, with one refund signature, that also
\* carries a release signature.
RefundingAfterRelease ==
    \E r \in Objects :
        /\ AtRest(r)
        /\ heap[r].Status = "refunding"
        /\ Len(heap[r].RefundSignatures) = 1
        /\ heap[r].ReleaseSignatures # << >>

\* A record in released has at least two release signatures and a release
\* transaction, one in refunded at least two refund signatures and a refund
\* transaction.
ThresholdWhenSettled(e) ==
    /\ e.Status = "released" =>
            (Len(e.ReleaseSignatures) >= 2 /\ e.ReleaseTxID # Empty)
    /\ e.Status = "refunded" =>
            (Len(e.RefundSignatures) >= 2 /\ e.RefundTxID # Empty)

\* C32 as stated: in every reachable state a record in released has at least
\* two release signatures and a non-empty ReleaseTxID, and a record in
\* refunded at least two refund signatures and a non-empty RefundTxID.
SettledHasThreshold ==
    \A r \in Objects : ThresholdWhenSettled(heap[r])

\* C32: in every reachable state in which no request is inside its
\* write-locked section on the record, a record in released has at least two
\* release signatures and a non-empty ReleaseTxID, and a record in refunded
\* at least two refund signatures and a non-empty RefundTxID.
SettledHasThresholdAtRest ==
    \A r \in Objects : AtRest(r) => ThresholdWhenSettled(heap[r])

\* A release submission has answered released and left the record at rest
\* with two release signatures and the transaction id it answered.
ReleasedAtRest ==
    \E p \in Procs :
        /\ Answered(p, "release")
        /\ resp[p].err = "" /\ resp[p].status = "released"
        /\ AtRest(escrow[p])
        /\ heap[escrow[p]].Status = "released"
        /\ Len(heap[escrow[p]].ReleaseSignatures) = 2
        /\ heap[escrow[p]].ReleaseTxID = resp[p].txid

\* A record in created has no payment txid and no signature.
Unpaid(e) ==
    e.Status = "created" =>
        /\ e.PaymentTxID = Empty
        /\ e.ReleaseSignatures = << >> /\ e.RefundSignatures = << >>
\* A record that left created has a payment txid.
Paid(e) == e.Status # "created" => e.PaymentTxID # Empty
\* A record that holds a signature has a payment txid.
SignedOnlyPaid(e) ==
    (e.ReleaseSignatures # << >> \/ e.RefundSignatures # << >>) =>
        e.PaymentTxID # Empty

\* C33 as stated: in every reachable state a record in created has an empty
\* PaymentTxID and empty release and refund sequences, and a record in any
\* other status has a non-empty PaymentTxID.
CreatedUnpaidOthersPaid ==
    \A r \in Objects : Unpaid(heap[r]) /\ Paid(heap[r])

\* C33: in every reachable state a record in created has an empty PaymentTxID
\* and empty release and refund sequences, and a record that holds a
\* signature has a non-empty PaymentTxID; a record in any other status than
\* created has a non-empty PaymentTxID in every state in which no request is
\* inside its write-locked section on it.
CreatedUnpaidOthersPaidAtRest ==
    \A r \in Objects :
        /\ Unpaid(heap[r])
        /\ SignedOnlyPaid(heap[r])
        /\ AtRest(r) => Paid(heap[r])

\* A record at rest that left created holds a signature and a payment txid,
\* while another record is still in created.
SignedAfterPayment ==
    \E r, s \in Objects :
        /\ AtRest(r)
        /\ heap[r].Status = "releasing"
        /\ heap[r].ReleaseSignatures # << >>
        /\ heap[r].PaymentTxID # Empty
        /\ heap[s].Status = "created"

\* The shape every record has while no request is inside its write-locked
\* section on it, which is the shape it has before and after each request.
Whole(e) == OneSignatureWhilePending(e) /\ ThresholdWhenSettled(e) /\ Paid(e)
\* Goroutine p builds the response of GetEscrow from the fields of its record.
Reads(p) == pc[p] = "g_read" /\ pc'[p] = "done"

\* C34: a GetEscrow that overlaps a signature submission or a VerifyPayment
\* on the same record answers the record as it was before or as it was after
\* that request: it reads the record while no request is inside its
\* write-locked section on it, and never a new signature with the old status
\* or a new status without its transaction id.
GetEscrowReadsWhole ==
    [][\A p \in Procs :
          Reads(p) => (AtRest(escrow[p]) /\ Whole(heap[escrow[p]]))]_vars

\* Goroutine p has answered a submission that called utils.CreateTransaction.
Synthesized(p) ==
    /\ (Answered(p, "release") \/ Answered(p, "refund"))
    /\ resp[p].err = ""
    /\ resp[p].status \in Settled

\* C35: the amount passed to utils.CreateTransaction on release or refund,
\* the amount of the record minus the fee of 1000, is strictly positive for
\* every record CreateEscrow accepted.
SettlementAmountPositive ==
    \A p \in Procs : Synthesized(p) => obs[p].amount > 0

\* The steps of VerifyPayment.
VerifySteps == {"v_get", "v_check", "v_lock", "v_txid"}
\* A step of goroutine p serving a VerifyPayment, release or refund request.
Writes(p) ==
    \/ StepOf(p, "verify", VerifySteps)
    \/ StepOf(p, "release", ReleaseSteps)
    \/ StepOf(p, "refund", RefundSteps)
\* The step leaves the entry of identifier id and the record stored under it
\* as they are.
Untouched(id) ==
    /\ escrows'[id] = escrows[id]
    /\ escrows[id] # Nil => heap'[escrows[id]] = heap[escrows[id]]

\* C36: a step of a VerifyPayment, release or refund request addressed to one
\* identifier changes no field of a record stored under another identifier,
\* nor the entry of another identifier, in any interleaving.
OtherRecordsUntouched ==
    [][\A p \in Procs :
          Writes(p) => \A id \in IDs \ {req'[p].id} : Untouched(id)]_vars

\* Two records are stored under two identifiers; a release submission has
\* signed one of them and the other is as CreateEscrow stored it.
SignedOneOfTwo ==
    \E p \in Procs : \E id \in IDs \ {req[p].id} :
        /\ Answered(p, "release")
        /\ resp[p].err = "" /\ resp[p].status = "releasing"
        /\ escrows[req[p].id] = escrow[p]
        /\ escrows[id] \notin {Nil, escrow[p]}
        /\ heap[escrows[id]].Status = "created"
        /\ heap[escrows[id]].PaymentTxID = Empty

====
